---- MODULE Spec2Model ----
(***************************************************************************)
(* perfsonar-mcp: the measurement-archive client (PerfSONARClient).        *)
(*                                                                         *)
(* Each invocation of a client method is a JavaScript async function: the  *)
(* code between two awaits runs to completion, so one action covers the    *)
(* code from the resumption after an await up to the next request (or the  *)
(* return / throw).  The archive is the environment: it answers every      *)
(* request in flight with a list or with a failure.                        *)
(***************************************************************************)
EXTENDS Integers, Sequences, FiniteSets, TLC

(* ----------------------------- bounds --------------------------------- *)

\* longest metadata response the archive gives
MaxSeries == 2

\* the invocations of the client
CallIds == {"c1"}

(* ------------------------ JavaScript values --------------------------- *)

\* A JavaScript value: undefined, a string, a number, or an object
\* {"error": s} (the shape of an archive error payload).
Undefined == [t |-> "undefined", s |-> "", n |-> 0]

Str(s) == [t |-> "string", s |-> s, n |-> 0]

Num(n) == [t |-> "number", s |-> "", n |-> n]

ErrObj(s) == [t |-> "object", s |-> s, n |-> 0]

\* JavaScript truthiness (the test of `if (v)`, `v ? a : b`, `a && b`, `a || b`)
Truthy(v) ==
    \/ v.t = "string" /\ v.s # ""
    \/ v.t = "number" /\ v.n # 0
    \/ v.t = "object"

\* `${v}` in a template literal
Template(v) ==
    CASE v.t = "string" -> v.s
      [] v.t = "number" -> ToString(v.n)
      [] v.t = "object" -> "[object Object]"
      [] OTHER -> "undefined"

\* JSON.stringify(v), for a defined v
JSONStringify(v) ==
    CASE v.t = "string" -> "\"" \o v.s \o "\""
      [] v.t = "number" -> ToString(v.n)
      [] v.t = "object" -> "{\"error\":\"" \o v.s \o "\"}"
      [] OTHER -> "undefined"

Range(seq) == {seq[i] : i \in 1..Len(seq)}

\* s contains sub as a contiguous substring
Contains(s, sub) ==
    \E i \in 1..(Len(s) - Len(sub) + 1) : SubSeq(s, i, i + Len(sub) - 1) = sub

EndsWith(s, suf) ==
    /\ Len(s) >= Len(suf)
    /\ SubSeq(s, Len(s) - Len(suf) + 1, Len(s)) = suf

(* --------------------------- the archive ------------------------------ *)

Hosts == {"h1", "h2"}

Keys == {"k1", "k2"}

\* event-type lists a series may carry (the "event-type" names of its
\* "event-types" descriptors, in the archive's order)
EventTypeLists ==
    { <<"throughput">>,
      <<"packet-loss-rate">>,
      <<"histogram-rtt">>,
      <<"histogram-owdelay">>,
      <<"histogram-rtt", "histogram-owdelay">> }

\* MeasurementMetadata: the fields the client reads
Series == [key : Keys, ets : EventTypeLists]

SeqsUpTo(S, n) == UNION {[1..k -> S] : k \in 0..n}

MetadataLists == SeqsUpTo(Series, MaxSeries)

\* TimeSeriesDataPoint lists the archive may answer a data fetch with
DataLists ==
    { <<>>,
      <<[ts |-> 1000, val |-> 500]>> }

\* What makes `await this.client.get(...)` throw: an AxiosError carrying the
\* response of a non-2xx answer (response.data is the body), an AxiosError
\* without a response (timeout, network), or an error that is not an AxiosError.
Bodies == {Str(""), Str("oops"), ErrObj("bad key")}

\* the `timeout` of the axios instance, in milliseconds
RequestTimeout == 30000

\* the message of the AxiosError that axios raises when RequestTimeout has
\* passed without an answer
TimeoutMessage == "timeout of " \o ToString(RequestTimeout) \o "ms exceeded"

Failures ==
    [axios : {TRUE}, hasResponse : {TRUE},
     message : {"Request failed with status code 500"}, data : Bodies]
    \cup
    [axios : {TRUE}, hasResponse : {FALSE},
     message : {TimeoutMessage}, data : {Undefined}]
    \cup
    [axios : {FALSE}, hasResponse : {FALSE},
     message : {"boom"}, data : {Undefined}]

(* ----------------------------- state ---------------------------------- *)

VARIABLES
    pc,        \* pc[c]: where invocation c stands
    op,        \* op[c]: the client method invoked
    args,      \* op[c]'s arguments
    inflight,  \* the archive requests invocation c has issued and not seen answered
    log,       \* every archive request invocation c has issued, in order
    replies,   \* every answer the archive gave invocation c, in order
    metadata,  \* the local `metadata` of a composite query
    idx,       \* position of the `for (const meta of metadata)` loop
    etIdx,     \* position of getLatency's `for (const eventTypeName of eventTypes)` loop
    results,   \* the local `results` of a composite query
    retval,    \* the value the invocation returned
    error,     \* the error the invocation threw
    request,   \* the tool call or resource read the server handles as invocation c
    server     \* the server process: its environment and how far it has started

vars == <<pc, op, args, inflight, log, replies, metadata, idx, etIdx, results, retval, error,
          request, server>>

NoError == [thrown |-> FALSE, message |-> "", wrapped |-> FALSE]

NoFailure == [axios |-> FALSE, hasResponse |-> FALSE, message |-> "", data |-> Undefined]

NoArgs == <<>>

\* no server process: the client is used by a program of its own
NoServer ==
    [env |-> Undefined, phase |-> "none", client |-> FALSE, handlers |-> FALSE,
     connected |-> FALSE, exit |-> Undefined, stderr |-> <<>>]

\* no request to the server: the client is called directly
NoRequest == [kind |-> "none", name |-> "", arguments |-> NoArgs]

Init ==
    /\ pc = [c \in CallIds |-> "idle"]
    /\ op = [c \in CallIds |-> "none"]
    /\ args = [c \in CallIds |-> NoArgs]
    /\ inflight = [c \in CallIds |-> {}]
    /\ log = [c \in CallIds |-> <<>>]
    /\ replies = [c \in CallIds |-> <<>>]
    /\ metadata = [c \in CallIds |-> <<>>]
    /\ idx = [c \in CallIds |-> 0]
    /\ etIdx = [c \in CallIds |-> 0]
    /\ results = [c \in CallIds |-> <<>>]
    /\ retval = [c \in CallIds |-> <<>>]
    /\ error = [c \in CallIds |-> NoError]
    /\ request = [c \in CallIds |-> NoRequest]
    /\ server = NoServer

(* ------------------------- pure helpers ------------------------------- *)

\* Find that finds a descriptor whatever the name
FindAlways(ets, name) == TRUE

\* meta["event-types"].find((e) => e["event-type"] === name): only whether a
\* descriptor was found is used
Find(ets, name) == \E i \in 1..Len(ets) : ets[i] = name

\* getMeasurementData: the URL path
BuildPath(p) ==
    "/" \o Template(p.metadataKey) \o "/" \o Template(p.eventType) \o
    (IF Truthy(p.summaryType) /\ Truthy(p.summaryWindow)
       THEN "/" \o Template(p.summaryType) \o "/" \o Template(p.summaryWindow)
       ELSE "/base")

\* getMeasurementData: the queryParams object
TimeField(p, k) ==
    CASE k = "time-start" -> p.timeStart
      [] k = "time-end" -> p.timeEnd
      [] k = "time-range" -> p.timeRange

BuildQueryParams(p) ==
    [k \in {k \in {"time-start", "time-end", "time-range"} : Truthy(TimeField(p, k))}
       |-> TimeField(p, k)]

\* the request getMeasurementData issues; series records for which entry of
\* the caller's metadata it was issued (0: a direct call)
DataRequest(p, i) ==
    [path |-> BuildPath(p), params |-> BuildQueryParams(p), series |-> i]

\* the request queryMeasurements issues
MetadataRequest(params) == [path |-> "/", params |-> params, series |-> 0]

\* the query parameters on the wire for the params object handed to
\* this.client.get: axios serializes every key but those whose value is
\* undefined; an empty string goes out as `key=`, a zero as `key=0`
SentParams(params) ==
    [k \in {k \in DOMAIN params : params[k].t # "undefined"} |-> params[k]]

\* WrapError that leaves the response body out of the message
WrapErrorNoBody(prefix, f) ==
    IF f.axios
      THEN [thrown |-> TRUE, message |-> prefix \o f.message, wrapped |-> TRUE]
      ELSE [thrown |-> TRUE, message |-> f.message, wrapped |-> FALSE]

\* the catch blocks of queryMeasurements and getMeasurementData
WrapError(prefix, f) ==
    IF f.axios
      THEN [thrown |-> TRUE,
            message |-> prefix \o f.message \o
                        (IF f.hasResponse /\ Truthy(f.data)
                           THEN " - " \o JSONStringify(f.data)
                           ELSE ""),
            wrapped |-> TRUE]
      ELSE [thrown |-> TRUE, message |-> f.message, wrapped |-> FALSE]

QueryPrefix == "Failed to query measurements: "

DataPrefix == "Failed to get measurement data: "

\* EventTypesOf with getLatency's preference order reversed
EventTypesOfRttFirst(o) ==
    CASE o = "getThroughput" -> <<"throughput">>
      [] o = "getLatency" -> <<"histogram-rtt", "histogram-owdelay">>
      [] o = "getPacketLoss" -> <<"packet-loss-rate">>

\* the event types a composite query looks for in a series, in order
EventTypesOf(o) ==
    CASE o = "getThroughput" -> <<"throughput">>
      [] o = "getLatency" -> <<"histogram-owdelay", "histogram-rtt">>
      [] o = "getPacketLoss" -> <<"packet-loss-rate">>

\* the summaryType a composite query asks for when summaryWindow is truthy
SummaryTypeOf(o) ==
    CASE o = "getThroughput" -> "averages"
      [] o = "getLatency" -> "statistics"
      [] o = "getPacketLoss" -> "aggregations"

\* NextFetch with a `break` in place of the skip: the outer loop ends at the
\* first series that lists none of the event types
NextFetchStopsAtMiss(o, md, i, k) ==
    LET order == EventTypesOf(o)
        miss == {j \in i..Len(md) :
                    \A n \in 1..Len(order) : ~Find(md[j].ets, order[n])}
        hits == {h \in (i..Len(md)) \X (1..Len(order)) :
                    /\ h[1] > i \/ h[2] >= k
                    /\ Find(md[h[1]].ets, order[h[2]])
                    /\ \A j \in miss : h[1] < j}
    IN IF hits = {} THEN <<0, 0>>
       ELSE CHOOSE h \in hits :
              \A g \in hits : h[1] < g[1] \/ (h[1] = g[1] /\ h[2] <= g[2])

\* the position at or after (i, k) at which the nested loops reach a data
\* fetch: the first series j (from i) and, within it, the first event type m
\* of EventTypesOf(o) (from k when j = i) that the series lists; <<0, 0>>
\* when the loops run to their end without a fetch
NextFetch(o, md, i, k) ==
    LET order == EventTypesOf(o)
        hits == {h \in (i..Len(md)) \X (1..Len(order)) :
                    /\ h[1] > i \/ h[2] >= k
                    /\ Find(md[h[1]].ets, order[h[2]])}
    IN IF hits = {} THEN <<0, 0>>
       ELSE CHOOSE h \in hits :
              \A g \in hits : h[1] < g[1] \/ (h[1] = g[1] /\ h[2] <= g[2])

\* AfterFetch without the `break`: the inner loop goes on to the next event type
AfterFetchNoBreak(i, k) == <<i, k + 1>>

\* where the loops stand after the body fetched series i as event type k:
\* `break` leaves the inner loop (getThroughput and getPacketLoss have none),
\* and the outer loop moves to the next series
AfterFetch(i, k) == <<i + 1, 1>>

\* FetchParams reading a field the series does not have (meta.metadataKey in
\* place of meta["metadata-key"])
FetchParamsNoKey(o, a, meta, eventTypeName) ==
    [metadataKey |-> Undefined,
     eventType |-> Str(eventTypeName),
     summaryType |-> IF Truthy(a.summaryWindow) THEN Str(SummaryTypeOf(o)) ELSE Undefined,
     summaryWindow |-> a.summaryWindow,
     timeStart |-> Undefined,
     timeEnd |-> Undefined,
     timeRange |-> a.timeRange]

\* the argument of getMeasurementData in the loop body
FetchParams(o, a, meta, eventTypeName) ==
    [metadataKey |-> Str(meta.key),
     eventType |-> Str(eventTypeName),
     summaryType |-> IF Truthy(a.summaryWindow) THEN Str(SummaryTypeOf(o)) ELSE Undefined,
     summaryWindow |-> a.summaryWindow,
     timeStart |-> Undefined,
     timeEnd |-> Undefined,
     timeRange |-> a.timeRange]

\* Issue that starts the fetches of all remaining series at once
\* (Promise.all over the series instead of an await in the loop)
IssueAll(o, a, md, i, k) ==
    LET todo == {j \in i..Len(md) : NextFetch(o, md, j, 1)[1] = j}
        nth(n) == CHOOSE j \in todo : Cardinality({x \in todo : x < j}) = n - 1
    IN [n \in 1..Cardinality(todo) |->
          DataRequest(FetchParams(o, a, md[nth(n)],
                                  EventTypesOf(o)[NextFetch(o, md, nth(n), 1)[2]]),
                      nth(n))]

\* the requests the loop issues at position (i, k) before it suspends: one,
\* `await this.getMeasurementData(...)`
Issue(o, a, md, i, k) ==
    <<DataRequest(FetchParams(o, a, md[i], EventTypesOf(o)[k]), i)>>

\* Push onto a `results` that is a field of the client rather than a local
\* of the call: what another invocation has pushed is in it too
PushShared(rs, r) ==
    LET others == {d \in DOMAIN results : results[d] # rs}
    IN IF others = {}
         THEN Append(rs, r)
         ELSE Append(results[CHOOSE d \in others : TRUE] \o rs, r)

\* Push that puts the result in front (unshift)
PushFront(rs, r) == <<r>> \o rs

\* results.push({ metadata: meta, data })
Push(rs, r) == Append(rs, r)

\* NeedsFallback deciding by whether any series lists a delay event type
NeedsFallbackNoDelay(md) ==
    \A i \in 1..Len(md) :
        ~Find(md[i].ets, "histogram-owdelay") /\ ~Find(md[i].ets, "histogram-rtt")

\* getLatency: `if (metadata.length === 0)`
NeedsFallback(md) == Len(md) = 0

\* Array.from(new Set(...)) over every event-type name of every series:
\* the distinct names in order of first appearance
RECURSIVE Flatten(_)
Flatten(md) ==
    IF md = <<>> THEN <<>> ELSE md[1].ets \o Flatten(Tail(md))

\* Dedupe that keeps every name (an array in place of the Set)
DedupeNone(names) == names

RECURSIVE Dedupe(_)
Dedupe(names) ==
    IF names = <<>> THEN <<>>
    ELSE LET init == Dedupe(SubSeq(names, 1, Len(names) - 1))
             last == names[Len(names)]
         IN IF last \in Range(init) THEN init ELSE Append(init, last)

\* ResponseData that drops the series it has already seen
ResponseDataDistinct(md) == Dedupe(md)

\* queryMeasurements: `return response.data`, the archive's list as it is
ResponseData(md) == md

(* --------------------------- arguments -------------------------------- *)

\* the options of a composite query
TimeRanges == {Undefined, Num(0), Num(86400)}

SummaryWindows == {Undefined, Num(0), Num(3600)}

CompositeArgs ==
    {a \in [source : Hosts, destination : Hosts,
            timeRange : {Undefined, Num(86400)}, summaryWindow : SummaryWindows] :
        a.source # a.destination}

\* MeasurementDataParams
DataParams ==
    [metadataKey : {Str(k) : k \in Keys},
     eventType : {Str("throughput"), Str("histogram-rtt")},
     summaryType : {Undefined, Str("averages")},
     summaryWindow : SummaryWindows,
     timeStart : {Undefined, Num(0), Num(100)},
     timeEnd : {Undefined, Num(200)},
     timeRange : TimeRanges]

\* MeasurementQueryParams: the filter objects callers pass
QueryFilters ==
    { <<>>,
      [source |-> Str("h1")],
      [source |-> Str("h1"), destination |-> Str("h2")],
      [source |-> Str(""), limit |-> Num(0)],
      [source |-> Str("h1"), destination |-> Undefined] }

EventTypesArgs ==
    [source : {Undefined, Str("h1")}, destination : {Undefined, Str("h2")}]

\* CompositeFilter with the two hosts in each other's place
CompositeFilterSwapped(a, et) ==
    ("source" :> Str(a.destination)) @@ ("destination" :> Str(a.source)) @@
    ("event-type" :> Str(et))

\* CompositeFilter that hands the caller's time window to the metadata
\* search as well
CompositeFilterWithTimeRange(a, et) ==
    ("source" :> Str(a.source)) @@ ("destination" :> Str(a.destination)) @@
    ("event-type" :> Str(et)) @@
    (IF Truthy(a.timeRange) THEN ("time-range" :> a.timeRange) ELSE <<>>)

\* the filter of a composite query's metadata search
CompositeFilter(a, et) ==
    ("source" :> Str(a.source)) @@ ("destination" :> Str(a.destination)) @@
    ("event-type" :> Str(et))

(* ---------------------------- actions --------------------------------- *)

IsMetadataRequest(r) == r.path = "/"

\* the position in log[c] of request r
LogIndex(c, r) == CHOOSE i \in 1..Len(log[c]) : log[c][i] = r

\* invocation c starts method o with arguments a and awaits request r,
\* having reached program point p
Start(c, o, a, r, p) ==
    /\ pc' = [pc EXCEPT ![c] = p]
    /\ op' = [op EXCEPT ![c] = o]
    /\ args' = [args EXCEPT ![c] = a]
    /\ inflight' = [inflight EXCEPT ![c] = {r}]
    /\ log' = [log EXCEPT ![c] = Append(@, r)]
    /\ UNCHANGED <<replies, metadata, idx, etIdx, results, retval, error>>

\* the request a method issues first, called with arguments a
FirstRequest(o, a) ==
    CASE o = "queryMeasurements" -> MetadataRequest(a)
      [] o = "getMeasurementData" -> DataRequest(a, 0)
      [] o = "getThroughput" -> MetadataRequest(CompositeFilter(a, "throughput"))
      [] o = "getLatency" -> MetadataRequest(CompositeFilter(a, "histogram-owdelay"))
      [] o = "getPacketLoss" -> MetadataRequest(CompositeFilter(a, "packet-loss-rate"))
      [] o = "getAvailableEventTypes" ->
            MetadataRequest([source |-> a.source, destination |-> a.destination])

\* invocation c calls method o of the client with arguments a: the method
\* runs up to its first `await`
Invoke(c, o, a) ==
    Start(c, o, a, FirstRequest(o, a),
          IF o = "getMeasurementData" THEN "data" ELSE "metadata")

\* queryMeasurements(params), up to `await this.client.get("/", { params })`
QueryMeasurements(c) ==
    /\ pc[c] = "idle"
    /\ \E f \in QueryFilters : Invoke(c, "queryMeasurements", f)
    /\ UNCHANGED <<request, server>>

\* getMeasurementData(params), up to `await this.client.get(path, ...)`
GetMeasurementData(c) ==
    /\ pc[c] = "idle"
    /\ \E p \in DataParams : Invoke(c, "getMeasurementData", p)
    /\ UNCHANGED <<request, server>>

\* getThroughput(source, destination, options), up to the metadata query
GetThroughput(c) ==
    /\ pc[c] = "idle"
    /\ \E a \in CompositeArgs : Invoke(c, "getThroughput", a)
    /\ UNCHANGED <<request, server>>

\* getLatency(source, destination, options), up to the first metadata query
GetLatency(c) ==
    /\ pc[c] = "idle"
    /\ \E a \in CompositeArgs : Invoke(c, "getLatency", a)
    /\ UNCHANGED <<request, server>>

\* getPacketLoss(source, destination, options), up to the metadata query
GetPacketLoss(c) ==
    /\ pc[c] = "idle"
    /\ \E a \in CompositeArgs : Invoke(c, "getPacketLoss", a)
    /\ UNCHANGED <<request, server>>

\* getAvailableEventTypes(source, destination), up to the metadata query
GetAvailableEventTypes(c) ==
    /\ pc[c] = "idle"
    /\ \E a \in EventTypesArgs : Invoke(c, "getAvailableEventTypes", a)
    /\ UNCHANGED <<request, server>>

Composite == {"getThroughput", "getLatency", "getPacketLoss"}

\* the invocation returns v
Return(c, v) ==
    /\ pc' = [pc EXCEPT ![c] = "returned"]
    /\ retval' = [retval EXCEPT ![c] = v]
    /\ inflight' = [inflight EXCEPT ![c] = {}]
    /\ UNCHANGED <<log, error>>

\* the loops of a composite query, entered or resumed at position (i, k)
\* with the results rs collected so far, request r having been answered:
\* they run to the next data fetch, or to their end and `return results`
Loop(c, r, md, i, k, rs) ==
    LET nf == NextFetch(op[c], md, i, k)
    IN /\ metadata' = [metadata EXCEPT ![c] = md]
       /\ results' = [results EXCEPT ![c] = rs]
       /\ IF nf[1] = 0
            THEN /\ idx' = [idx EXCEPT ![c] = Len(md) + 1]
                 /\ etIdx' = [etIdx EXCEPT ![c] = 0]
                 /\ Return(c, rs)
            ELSE LET rq == Issue(op[c], args[c], md, nf[1], nf[2])
                 IN /\ idx' = [idx EXCEPT ![c] = nf[1]]
                    /\ etIdx' = [etIdx EXCEPT ![c] = nf[2]]
                    /\ pc' = [pc EXCEPT ![c] = "data"]
                    /\ inflight' = [inflight EXCEPT ![c] = (@ \ {r}) \cup Range(rq)]
                    /\ log' = [log EXCEPT ![c] = @ \o rq]
                    /\ UNCHANGED <<retval, error>>

\* AtFirstQuery with `while` in place of `if`: the answer to the fallback
\* query is tested for emptiness as well
AtAnyQuery(p) == p \in {"metadata", "fallback"}

\* getLatency: the emptiness test follows the first metadata query only
\* (an `if`, between the first await and the loop)
AtFirstQuery(p) == p = "metadata"

\* the code that runs when queryMeasurements hands the list md to its caller
OnMetadata(c, r, md) ==
    CASE op[c] = "queryMeasurements" ->
            /\ Return(c, md)
            /\ UNCHANGED <<metadata, idx, etIdx, results>>
      [] op[c] = "getAvailableEventTypes" ->
            /\ Return(c, Dedupe(Flatten(md)))
            /\ metadata' = [metadata EXCEPT ![c] = md]
            /\ UNCHANGED <<idx, etIdx, results>>
      [] op[c] = "getLatency" /\ AtFirstQuery(pc[c]) /\ NeedsFallback(md) ->
            LET q == MetadataRequest(CompositeFilter(args[c], "histogram-rtt"))
            IN /\ pc' = [pc EXCEPT ![c] = "fallback"]
               /\ inflight' = [inflight EXCEPT ![c] = (@ \ {r}) \cup {q}]
               /\ log' = [log EXCEPT ![c] = Append(@, q)]
               /\ metadata' = [metadata EXCEPT ![c] = md]
               /\ UNCHANGED <<idx, etIdx, results, retval, error>>
      [] OTHER -> Loop(c, r, md, 1, 1, <<>>)

\* the code that runs when getMeasurementData hands the points d of
\* request r to its caller
OnData(c, r, d) ==
    IF op[c] = "getMeasurementData"
      THEN /\ Return(c, d)
           /\ UNCHANGED <<metadata, idx, etIdx, results>>
      ELSE LET next == AfterFetch(idx[c], etIdx[c])
           IN Loop(c, r, metadata[c], next[1], next[2],
                   Push(results[c], [metadata |-> metadata[c][idx[c]], data |-> d]))

\* Propagate with a retry: the failed request is issued again (up to a
\* few requests per invocation) instead of failing the invocation
RetryOnFailure(c, r, e) ==
    IF Len(log[c]) < 4
      THEN /\ log' = [log EXCEPT ![c] = Append(@, r)]
           /\ UNCHANGED <<error, pc, inflight, metadata, idx, etIdx, results, retval>>
      ELSE /\ error' = [error EXCEPT ![c] = e]
           /\ pc' = [pc EXCEPT ![c] = "failed"]
           /\ inflight' = [inflight EXCEPT ![c] = {}]
           /\ UNCHANGED <<log, metadata, idx, etIdx, results, retval>>

\* Propagate with a catch block around the await: a failed metadata query
\* counts as an empty list, a failed data fetch skips the series
TolerateFailure(c, r, e) ==
    IF IsMetadataRequest(r)
      THEN OnMetadata(c, r, <<>>)
      ELSE IF op[c] = "getMeasurementData"
             THEN OnData(c, r, <<>>)
             ELSE Loop(c, r, metadata[c], idx[c] + 1, 1, results[c])

\* parts.join(", ")
RECURSIVE Join(_)
Join(parts) ==
    IF Len(parts) = 0 THEN ""
    ELSE IF Len(parts) = 1 THEN parts[1]
    ELSE parts[1] \o ", " \o Join(Tail(parts))

\* new Error(msg)
PlainError(msg) == [thrown |-> TRUE, message |-> msg, wrapped |-> FALSE]

\* the ZodError of a parse that raised issues, each as "path: message"
ZodError(issues) ==
    [thrown |-> TRUE, message |-> "ZodError", wrapped |-> FALSE, issues |-> issues]

\* ToolCatch that wraps whatever it catches
ToolCatchWrapAll(e) ==
    PlainError("Invalid arguments: " \o
               (IF "issues" \in DOMAIN e THEN Join(e.issues) ELSE e.message))

\* the catch block of the tool handler: a ZodError is thrown again as an
\* Error listing its issues, any other error is thrown again as it is
ToolCatch(e) ==
    IF "issues" \in DOMAIN e
      THEN PlainError("Invalid arguments: " \o Join(e.issues))
      ELSE e

\* the error that leaves the handler of invocation c when e is thrown in
\* it: the tool handler has a catch block, the resource handler and a
\* direct caller of the client have none
Thrown(c, e) == IF request[c].kind = "tool" THEN ToolCatch(e) ELSE e

\* the error e thrown by a primitive on request r: no method of the client
\* has a catch block around it, so the invocation fails
Propagate(c, r, e) ==
    /\ error' = [error EXCEPT ![c] = Thrown(c, e)]
    /\ pc' = [pc EXCEPT ![c] = "failed"]
    /\ inflight' = [inflight EXCEPT ![c] = {}]
    /\ UNCHANGED <<log, metadata, idx, etIdx, results, retval>>

\* the program points at which an invocation awaits a request
Awaiting == {"metadata", "fallback", "data"}

\* the archive answers a metadata query of invocation c with a list of lists
MetadataResponseOf(c, lists) ==
    /\ \E r \in inflight[c], md \in lists :
        /\ IsMetadataRequest(r)
        /\ replies' = [replies EXCEPT ![c] =
              Append(@, [to |-> LogIndex(c, r), ok |-> TRUE, list |-> md,
                         failure |-> NoFailure])]
        /\ OnMetadata(c, r, ResponseData(md))
    /\ UNCHANGED <<op, args, request, server>>

\* the archive answers a metadata query of invocation c with a list
MetadataResponse(c) ==
    /\ pc[c] \in Awaiting
    /\ MetadataResponseOf(c, MetadataLists)

\* the archive answers a data fetch of invocation c with a list of points
DataResponse(c) ==
    /\ pc[c] \in Awaiting
    /\ \E r \in inflight[c], d \in DataLists :
        /\ ~IsMetadataRequest(r)
        /\ replies' = [replies EXCEPT ![c] =
              Append(@, [to |-> LogIndex(c, r), ok |-> TRUE, list |-> d,
                         failure |-> NoFailure])]
        /\ OnData(c, r, d)
    /\ UNCHANGED <<op, args, request, server>>

\* a request of invocation c fails in one of the ways fs: the catch block
\* of the primitive that issued it wraps or rethrows the error
RequestFailsBy(c, fs) ==
    /\ \E r \in inflight[c], f \in fs :
        /\ replies' = [replies EXCEPT ![c] =
              Append(@, [to |-> LogIndex(c, r), ok |-> FALSE, list |-> <<>>,
                         failure |-> f])]
        /\ Propagate(c, r,
              WrapError(IF IsMetadataRequest(r) THEN QueryPrefix ELSE DataPrefix, f))
    /\ UNCHANGED <<op, args, request, server>>

\* a request of invocation c fails (non-2xx answer, timeout, network error,
\* or an error that is not an AxiosError)
RequestFails(c) ==
    /\ pc[c] \in Awaiting
    /\ RequestFailsBy(c, Failures)

Next ==
    \E c \in CallIds :
        \/ QueryMeasurements(c)
        \/ GetMeasurementData(c)
        \/ GetThroughput(c)
        \/ GetLatency(c)
        \/ GetPacketLoss(c)
        \/ GetAvailableEventTypes(c)
        \/ MetadataResponse(c)
        \/ DataResponse(c)
        \/ RequestFails(c)

Spec == Init /\ [][Next]_vars

\* the series the archive holds in the behaviours checked for termination:
\* one for each composite query to fetch, lists of them being of any length
\* up to MaxSeries and in any order, the same series repeated included
LiveSeries ==
    { [key |-> "k1", ets |-> <<"throughput">>],
      [key |-> "k2", ets |-> <<"packet-loss-rate">>],
      [key |-> "k1", ets |-> <<"histogram-rtt", "histogram-owdelay">>] }

\* a request of invocation c ends: answered, refused, or timed out
Answer(c) ==
    \/ pc[c] \in Awaiting /\ MetadataResponseOf(c, SeqsUpTo(LiveSeries, MaxSeries))
    \/ DataResponse(c)
    \/ RequestFails(c)

LiveNext ==
    \E c \in CallIds :
        \/ QueryMeasurements(c)
        \/ GetMeasurementData(c)
        \/ GetThroughput(c)
        \/ GetLatency(c)
        \/ GetPacketLoss(c)
        \/ GetAvailableEventTypes(c)
        \/ Answer(c)

\* the client against an archive of LiveSeries, with every request ending:
\* axios rejects a request that has had no answer for RequestTimeout
\* milliseconds, so none stays in flight for ever
LiveSpec == Init /\ [][LiveNext]_vars /\ \A c \in CallIds : WF_vars(Answer(c))

\* two invocations of the one client, as the transport may run them
PairIds == {"c1", "c2"}

PairInit ==
    /\ pc = [c \in PairIds |-> "idle"]
    /\ op = [c \in PairIds |-> "none"]
    /\ args = [c \in PairIds |-> NoArgs]
    /\ inflight = [c \in PairIds |-> {}]
    /\ log = [c \in PairIds |-> <<>>]
    /\ replies = [c \in PairIds |-> <<>>]
    /\ metadata = [c \in PairIds |-> <<>>]
    /\ idx = [c \in PairIds |-> 0]
    /\ etIdx = [c \in PairIds |-> 0]
    /\ results = [c \in PairIds |-> <<>>]
    /\ retval = [c \in PairIds |-> <<>>]
    /\ error = [c \in PairIds |-> NoError]
    /\ request = [c \in PairIds |-> NoRequest]
    /\ server = NoServer

\* the arguments of the two invocations: one argument per method
PairArgs ==
    { NoArgs,
      [source |-> Str("h1")],
      [source |-> Str("h1"), destination |-> Str("h2")],
      [source |-> "h1", destination |-> "h2",
       timeRange |-> Undefined, summaryWindow |-> Undefined],
      [metadataKey |-> Str("k1"), eventType |-> Str("throughput"),
       summaryType |-> Undefined, summaryWindow |-> Undefined,
       timeStart |-> Undefined, timeEnd |-> Undefined, timeRange |-> Undefined] }

\* the series the archive holds when two invocations run
PairSeries ==
    { [key |-> "k1", ets |-> <<"throughput">>],
      [key |-> "k2", ets |-> <<"histogram-rtt", "histogram-owdelay">>] }

\* the two invocations are called with PairArgs
PairScope == \A c \in PairIds : args[c] \in PairArgs

\* the failure of a request that has timed out
Timeouts == {f \in Failures : f.message = TimeoutMessage}

\* a step of one of the two invocations, the other being anywhere
PairNext ==
    \E c \in PairIds :
        \/ QueryMeasurements(c) /\ PairScope'
        \/ GetMeasurementData(c) /\ PairScope'
        \/ GetThroughput(c) /\ PairScope'
        \/ GetLatency(c) /\ PairScope'
        \/ GetPacketLoss(c) /\ PairScope'
        \/ GetAvailableEventTypes(c) /\ PairScope'
        \/ pc[c] \in Awaiting /\ MetadataResponseOf(c, SeqsUpTo(PairSeries, MaxSeries))
        \/ DataResponse(c)
        \/ pc[c] \in Awaiting /\ RequestFailsBy(c, Timeouts)

\* two concurrent invocations, their steps interleaved in every way, against
\* an archive that holds PairSeries and answers or lets the request time out
PairSpec == PairInit /\ [][PairNext]_vars

(* --------------------------- the server -------------------------------- *)

\* PERFSONAR_HOST, the archive host the server is started with
PerfsonarHost == "ps.example.net"

\* the tools the server lists
ToolNames ==
    { "query_measurements", "get_measurement_data", "get_throughput",
      "get_latency", "get_packet_loss", "get_available_event_types" }

\* the names callers ask for: the tools, and names that are no tool
AskedNames == ToolNames \cup {"get_jitter", "getThroughput", ""}

\* the URI of the resource the server lists
ResourceUri == "perfsonar://" \o PerfsonarHost \o "/archive"

\* the ListResourcesRequestSchema handler's `resources`
ListedResources ==
    << [uri |-> ResourceUri,
        name |-> "perfSONAR Archive",
        description |-> "Main perfSONAR measurement archive",
        mimeType |-> "application/json"] >>

\* the URIs callers ask for
AskedUris ==
    { ResourceUri,
      ResourceUri \o "/",
      "perfsonar://other.example.net/archive",
      "archive://" \o PerfsonarHost \o "/archive" }

\* MethodOf with a default case that serves the request as a listing
MethodOfDefaulting(name) ==
    CASE name = "get_measurement_data" -> "getMeasurementData"
      [] name = "get_throughput" -> "getThroughput"
      [] name = "get_latency" -> "getLatency"
      [] name = "get_packet_loss" -> "getPacketLoss"
      [] name = "get_available_event_types" -> "getAvailableEventTypes"
      [] OTHER -> "queryMeasurements"

\* `switch (name)`: the client method the case of tool `name` calls, "none"
\* for the default case
MethodOf(name) ==
    CASE name = "query_measurements" -> "queryMeasurements"
      [] name = "get_measurement_data" -> "getMeasurementData"
      [] name = "get_throughput" -> "getThroughput"
      [] name = "get_latency" -> "getLatency"
      [] name = "get_packet_loss" -> "getPacketLoss"
      [] name = "get_available_event_types" -> "getAvailableEventTypes"
      [] OTHER -> "none"

Field(f, ty, req) == [field |-> f, type |-> ty, required |-> req]

\* the zod schema the case that calls method o parses the input with, its
\* fields in the order of declaration
SchemaOf(o) ==
    CASE o = "queryMeasurements" ->
            << Field("source", "string", FALSE), Field("destination", "string", FALSE),
               Field("eventType", "string", FALSE), Field("toolName", "string", FALSE),
               Field("timeRange", "number", FALSE) >>
      [] o = "getMeasurementData" ->
            << Field("metadataKey", "string", TRUE), Field("eventType", "string", TRUE),
               Field("summaryType", "string", FALSE), Field("summaryWindow", "number", FALSE),
               Field("timeRange", "number", FALSE) >>
      [] o \in {"getThroughput", "getLatency", "getPacketLoss"} ->
            << Field("source", "string", TRUE), Field("destination", "string", TRUE),
               Field("timeRange", "number", FALSE), Field("summaryWindow", "number", FALSE) >>
      [] o = "getAvailableEventTypes" ->
            << Field("source", "string", FALSE), Field("destination", "string", FALSE) >>

\* the inputs callers send with a tool call: every schema field is absent
\* (Undefined), of its type, or (the first fields) of the wrong type
ToolArguments(name) ==
    CASE name = "query_measurements" ->
            [source : {Undefined, Str("h1")}, destination : {Undefined, Str("h2")},
             eventType : {Undefined, Str("throughput")}, toolName : {Undefined},
             timeRange : {Undefined, Num(0), Num(3600), Str("1d")}]
      [] name = "get_measurement_data" ->
            [metadataKey : {Undefined, Str("k1"), Num(7)},
             eventType : {Undefined, Str("throughput")},
             summaryType : {Undefined, Str("averages")},
             summaryWindow : {Undefined, Num(3600)},
             timeRange : {Undefined, Num(0), Num(3600)}]
      [] name \in {"get_throughput", "get_latency", "get_packet_loss"} ->
            [source : {Undefined, Str("h1"), Num(7)},
             destination : {Undefined, Str("h2")},
             timeRange : {Undefined, Num(0), Num(3600)},
             summaryWindow : {Undefined, Num(3600)}]
      [] name = "get_available_event_types" ->
            [source : {Undefined, Str("h1")}, destination : {Undefined, Str("h2"), Num(7)}]
      [] OTHER ->
            {NoArgs, [source |-> Str("h1"), destination |-> Str("h2")]}

\* IssueOf for a schema whose fields are all .optional(): an absent value
\* raises no issue
IssueOfAllOptional(f, v) ==
    IF v.t = "undefined" \/ v.t = f.type
      THEN ""
      ELSE "Expected " \o f.type \o ", received " \o v.t

\* the message of the issue zod raises for value v of a field, "" for none
IssueOf(f, v) ==
    IF v.t = "undefined"
      THEN IF f.required THEN "Required" ELSE ""
      ELSE IF v.t # f.type
             THEN "Expected " \o f.type \o ", received " \o v.t
             ELSE ""

\* a[k] of a JavaScript object: undefined for a key it does not have
Get(a, k) == IF k \in DOMAIN a THEN a[k] ELSE Undefined

\* Schema.parse(a): the issues, as "path: message", in the schema's order
RECURSIVE Issues(_, _)
Issues(schema, a) ==
    IF schema = <<>>
      THEN <<>>
      ELSE LET f == Head(schema)
               msg == IssueOf(f, Get(a, f.field))
           IN (IF msg = "" THEN <<>> ELSE <<f.field \o ": " \o msg>>)
                \o Issues(Tail(schema), a)

\* Schema.parse(a) of an input without issues: the schema's fields of a
Parsed(schema, a) ==
    [k \in {schema[i].field : i \in 1..Len(schema)} |-> Get(a, k)]

\* the params object the query_measurements case builds: a key for every
\* truthy input
ToolFilter(p) ==
    LET from == ("source" :> "source") @@ ("destination" :> "destination") @@
                ("event-type" :> "eventType") @@ ("tool-name" :> "toolName") @@
                ("time-range" :> "timeRange")
    IN [k \in {k \in DOMAIN from : Truthy(p[from[k]])} |-> p[from[k]]]

\* ClientArgs without the `|| 86400`: the composite queries get the parsed
\* timeRange as it is
ClientArgsNoDefault(o, p) ==
    CASE o = "queryMeasurements" -> ToolFilter(p)
      [] o = "getMeasurementData" ->
            [metadataKey |-> p.metadataKey, eventType |-> p.eventType,
             summaryType |-> p.summaryType, summaryWindow |-> p.summaryWindow,
             timeStart |-> Undefined, timeEnd |-> Undefined, timeRange |-> p.timeRange]
      [] o \in {"getThroughput", "getLatency", "getPacketLoss"} ->
            [source |-> p.source.s, destination |-> p.destination.s,
             timeRange |-> p.timeRange,
             summaryWindow |-> p.summaryWindow]
      [] o = "getAvailableEventTypes" ->
            [source |-> p.source, destination |-> p.destination]

\* the arguments the case that calls method o passes it, p being the
\* parsed input
ClientArgs(o, p) ==
    CASE o = "queryMeasurements" -> ToolFilter(p)
      [] o = "getMeasurementData" ->
            [metadataKey |-> p.metadataKey, eventType |-> p.eventType,
             summaryType |-> p.summaryType, summaryWindow |-> p.summaryWindow,
             timeStart |-> Undefined, timeEnd |-> Undefined, timeRange |-> p.timeRange]
      [] o \in {"getThroughput", "getLatency", "getPacketLoss"} ->
            [source |-> p.source.s, destination |-> p.destination.s,
             timeRange |-> IF Truthy(p.timeRange) THEN p.timeRange ELSE Num(86400),
             summaryWindow |-> p.summaryWindow]
      [] o = "getAvailableEventTypes" ->
            [source |-> p.source, destination |-> p.destination]

RECURSIVE Spaces(_)
Spaces(n) == IF n = 0 THEN "" ELSE " " \o Spaces(n - 1)

\* parts.join(sep)
RECURSIVE JoinWith(_, _)
JoinWith(parts, sep) ==
    IF Len(parts) = 0 THEN ""
    ELSE IF Len(parts) = 1 THEN parts[1]
    ELSE parts[1] \o sep \o JoinWith(Tail(parts), sep)

\* JSON.stringify(array, null, 2) at indentation ind, items being the texts
\* of the elements
JSONArray(items, ind) ==
    IF Len(items) = 0
      THEN "[]"
      ELSE "[\n"
           \o JoinWith([i \in 1..Len(items) |-> Spaces(ind + 2) \o items[i]], ",\n")
           \o "\n" \o Spaces(ind) \o "]"

\* JSON.stringify(object, null, 2) at indentation ind, members being the
\* <<key, text of the value>> pairs
JSONObject(members, ind) ==
    IF Len(members) = 0
      THEN "{}"
      ELSE "{\n"
           \o JoinWith([i \in 1..Len(members) |->
                          Spaces(ind + 2) \o "\"" \o members[i][1] \o "\": "
                          \o members[i][2]], ",\n")
           \o "\n" \o Spaces(ind) \o "}"

\* the JSON text of a series at indentation ind
SeriesJSON(m, ind) ==
    JSONObject(
        << <<"metadata-key", JSONStringify(Str(m.key))>>,
           <<"event-types",
             JSONArray([i \in 1..Len(m.ets) |->
                           JSONObject(<< <<"event-type", JSONStringify(Str(m.ets[i]))>> >>,
                                      ind + 4)],
                       ind + 2)>> >>,
        ind)

\* JSON.stringify(measurements, null, 2) of a list of series
ListingJSON(md) == JSONArray([i \in 1..Len(md) |-> SeriesJSON(md[i], 2)], 0)

\* the JSON text of a list of points at indentation ind
PointsJSON(d, ind) ==
    JSONArray([i \in 1..Len(d) |->
                  JSONObject(<< <<"ts", ToString(d[i].ts)>>, <<"val", ToString(d[i].val)>> >>,
                             ind + 2)],
              ind)

\* JSON.stringify(results, null, 2) of a list of MeasurementResult
ResultsJSON(rs) ==
    JSONArray([i \in 1..Len(rs) |->
                  JSONObject(<< <<"metadata", SeriesJSON(rs[i].metadata, 4)>>,
                                <<"data", PointsJSON(rs[i].data, 4)>> >>, 2)],
              0)

\* JSON.stringify(value, null, 2) of what method o returned
ReturnJSON(o, v) ==
    CASE o = "queryMeasurements" -> ListingJSON(v)
      [] o = "getMeasurementData" -> PointsJSON(v, 0)
      [] o = "getAvailableEventTypes" ->
            JSONArray([i \in 1..Len(v) |-> JSONStringify(Str(v[i]))], 0)
      [] OTHER -> ResultsJSON(v)

\* no value: the handler has not returned
NoResult == [content |-> <<>>]

\* what the tool handler of invocation c has returned: a text content once
\* the client method has returned, nothing while it runs or when it threw
ToolResult(c) ==
    IF request[c].kind = "tool" /\ pc[c] = "returned"
      THEN [content |-> << [type |-> "text", text |-> ReturnJSON(op[c], retval[c])] >>]
      ELSE NoResult

\* what the ReadResourceRequestSchema handler returns once
\* client.queryMeasurements({}) has returned
ReadResult(c) ==
    [contents |-> << [uri |-> request[c].name,
                      mimeType |-> "application/json",
                      text |-> ListingJSON(retval[c])] >>]

\* the handler throws new Error(msg) before any call of the client
Throw(c, msg) ==
    /\ error' = [error EXCEPT ![c] = [thrown |-> TRUE, message |-> msg, wrapped |-> FALSE]]
    /\ pc' = [pc EXCEPT ![c] = "failed"]
    /\ UNCHANGED <<op, args, inflight, log, replies, metadata, idx, etIdx, results, retval>>

\* the CallToolRequestSchema handler, up to the first `await` of the client
\* method it calls, or to the error it throws
CallTool(c) ==
    /\ server.connected
    /\ pc[c] = "idle"
    /\ UNCHANGED server
    /\ \E name \in AskedNames : \E a \in ToolArguments(name) :
        /\ request' = [request EXCEPT ![c] =
                          [kind |-> "tool", name |-> name, arguments |-> a]]
        /\ LET o == MethodOf(name)
           IN IF o = "none"
                THEN Throw(c, ToolCatch(PlainError("Unknown tool: " \o name)).message)
                ELSE IF Issues(SchemaOf(o), a) # <<>>
                       THEN Throw(c, ToolCatch(ZodError(Issues(SchemaOf(o), a))).message)
                       ELSE Invoke(c, o, ClientArgs(o, Parsed(SchemaOf(o), a)))

\* ResourceFilter that asks for the series of the configured host
ResourceFilterByHost == [source |-> Str(PerfsonarHost)]

\* the `{}` the resource handler passes to client.queryMeasurements
ResourceFilter == NoArgs

\* the ReadResourceRequestSchema handler, up to the `await` of
\* client.queryMeasurements({}), or to the error it throws
ReadResource(c) ==
    /\ server.connected
    /\ pc[c] = "idle"
    /\ UNCHANGED server
    /\ \E uri \in AskedUris :
        /\ request' = [request EXCEPT ![c] =
                          [kind |-> "resource", name |-> uri, arguments |-> NoArgs]]
        /\ IF uri = ResourceUri
             THEN Invoke(c, "queryMeasurements", ResourceFilter)
             ELSE Throw(c, "Unknown resource: " \o uri)

\* the ListResourcesRequestSchema handler
ListResources(c) ==
    /\ server.connected
    /\ pc[c] = "idle"
    /\ UNCHANGED server
    /\ request' = [request EXCEPT ![c] =
                      [kind |-> "list", name |-> "", arguments |-> NoArgs]]
    /\ pc' = [pc EXCEPT ![c] = "returned"]
    /\ retval' = [retval EXCEPT ![c] = ListedResources]
    /\ UNCHANGED <<op, args, inflight, log, replies, metadata, idx, etIdx, results, error>>

\* the values PERFSONAR_HOST may have when the process starts
Environments == {Undefined, Str(""), Str(PerfsonarHost)}

\* the process starts: nothing of the module has run
ServerInit ==
    /\ pc = [c \in CallIds |-> "idle"]
    /\ op = [c \in CallIds |-> "none"]
    /\ args = [c \in CallIds |-> NoArgs]
    /\ inflight = [c \in CallIds |-> {}]
    /\ log = [c \in CallIds |-> <<>>]
    /\ replies = [c \in CallIds |-> <<>>]
    /\ metadata = [c \in CallIds |-> <<>>]
    /\ idx = [c \in CallIds |-> 0]
    /\ etIdx = [c \in CallIds |-> 0]
    /\ results = [c \in CallIds |-> <<>>]
    /\ retval = [c \in CallIds |-> <<>>]
    /\ error = [c \in CallIds |-> NoError]
    /\ request = [c \in CallIds |-> NoRequest]
    /\ \E e \in Environments : server = [NoServer EXCEPT !.env = e, !.phase = "start"]

\* HostMissing that takes only an unset variable for missing
HostMissingUnsetOnly(env) == env.t = "undefined"

\* `!PERFSONAR_HOST`
HostMissing(env) == ~Truthy(env)

UnchangedCalls ==
    UNCHANGED <<pc, op, args, inflight, log, replies, metadata, idx, etIdx, results, retval,
                error, request>>

\* the module's top-level code, up to process.exit(1) or to the
\* `await server.connect(transport)` of main()
Boot ==
    /\ server.phase = "start"
    /\ IF HostMissing(server.env)
         THEN server' = [server EXCEPT
                 !.phase = "exited", !.exit = Num(1),
                 !.stderr = Append(@, "Error: PERFSONAR_HOST environment variable is required")]
         ELSE server' = [server EXCEPT
                 !.phase = "connecting", !.client = TRUE, !.handlers = TRUE]
    /\ UnchangedCalls

\* server.connect(transport) resolves: main() logs and ends, the server
\* handles requests
Connected ==
    /\ server.phase = "connecting"
    /\ server' = [server EXCEPT
          !.phase = "serving", !.connected = TRUE,
          !.stderr = @ \o << "perfSONAR MCP server running on stdio",
                            "Connected to perfSONAR host: " \o Template(server.env) >>]
    /\ UnchangedCalls

\* server.connect(transport) rejects: main().catch logs and exits
ConnectFails ==
    /\ server.phase = "connecting"
    /\ server' = [server EXCEPT
          !.phase = "exited", !.exit = Num(1),
          !.stderr = Append(@, "Fatal error:")]
    /\ UnchangedCalls

ServerNext ==
    \/ Boot
    \/ Connected
    \/ ConnectFails
    \/ \E c \in CallIds :
        \/ CallTool(c)
        \/ ListResources(c)
        \/ ReadResource(c)
        \/ Answer(c)

\* the server process from its start, handling a tool call, a resource
\* listing or a resource read against an archive that holds LiveSeries
ServerSpec == ServerInit /\ [][ServerNext]_vars

(* ----------------------------- claims ---------------------------------- *)

Supplied(v) == v.t # "undefined"

StartsWith(s, pre) == Len(s) >= Len(pre) /\ SubSeq(s, 1, Len(pre)) = pre

\* the positions in log[c] of the data fetches
DataFetches(c) == {i \in 1..Len(log[c]) : ~IsMetadataRequest(log[c][i])}

\* r is a metadata query filtered by event type et
IsQueryFor(r, et) ==
    /\ IsMetadataRequest(r)
    /\ "event-type" \in DOMAIN r.params
    /\ r.params["event-type"] = Str(et)

Lists(meta, et) == \E n \in 1..Len(meta.ets) : meta.ets[n] = et

\* C1 (as the spec states it): every getMeasurementData call requests
\* /{metadataKey}/{eventType}/{summaryType}/{summaryWindow} when both
\* summaryType and summaryWindow are supplied, and /{metadataKey}/{eventType}/base
\* in every other case.
C1_PathBySupplied ==
    \A c \in CallIds :
        op[c] = "getMeasurementData" =>
            LET p == args[c]
                base == "/" \o p.metadataKey.s \o "/" \o p.eventType.s
            IN log[c][1].path =
                 IF Supplied(p.summaryType) /\ Supplied(p.summaryWindow)
                   THEN base \o "/" \o p.summaryType.s \o "/" \o ToString(p.summaryWindow.n)
                   ELSE base \o "/base"

\* C2: in a getLatency call the histogram-rtt metadata query is issued if and
\* only if the histogram-owdelay query was answered with zero series.
C2_FallbackIffEmpty ==
    \A c \in CallIds :
        op[c] = "getLatency" =>
            ( (\E i \in 1..Len(log[c]) : IsQueryFor(log[c][i], "histogram-rtt"))
              <=>
              (/\ Len(replies[c]) >= 1
               /\ replies[c][1].ok
               /\ replies[c][1].list = <<>>) )

\* a getLatency call returned after a non-empty first answer none of whose
\* series lists a delay event type: one query only, no result
C2_Witness ==
    \E c \in CallIds :
        /\ op[c] = "getLatency" /\ pc[c] = "returned"
        /\ Len(replies[c]) = 1 /\ replies[c][1].list # <<>>
        /\ \A i \in 1..Len(replies[c][1].list) :
              /\ ~Lists(replies[c][1].list[i], "histogram-owdelay")
              /\ ~Lists(replies[c][1].list[i], "histogram-rtt")
        /\ Len(log[c]) = 1 /\ retval[c] = <<>>

\* C3: every data fetch of getLatency asks for histogram-owdelay when the
\* series lists it, and for histogram-rtt otherwise (which the series then
\* lists), whichever metadata query returned the series.
C3_LatencyEventType ==
    \A c \in CallIds :
        op[c] = "getLatency" =>
            \A i \in DataFetches(c) :
                LET m == metadata[c][log[c][i].series]
                    expected == IF Lists(m, "histogram-owdelay")
                                  THEN "histogram-owdelay" ELSE "histogram-rtt"
                IN /\ Lists(m, expected)
                   /\ StartsWith(log[c][i].path, "/" \o m.key \o "/" \o expected \o "/")

\* the fallback query returned a series listing histogram-rtt before
\* histogram-owdelay, and its data is fetched as histogram-owdelay
C3_Witness ==
    \E c \in CallIds :
        /\ op[c] = "getLatency" /\ Len(log[c]) = 3
        /\ IsQueryFor(log[c][2], "histogram-rtt")
        /\ metadata[c][log[c][3].series].ets = <<"histogram-rtt", "histogram-owdelay">>
        /\ Contains(log[c][3].path, "/histogram-owdelay/")

\* C4: getLatency issues at most one data fetch and emits at most one result
\* per series of the metadata response.
C4_OnePerSeries ==
    \A c \in CallIds :
        op[c] = "getLatency" =>
            /\ \A j \in 1..Len(metadata[c]) :
                  Cardinality({i \in DataFetches(c) : log[c][i].series = j}) <= 1
            /\ \A m \in Range(metadata[c]) :
                  Cardinality({i \in 1..Len(results[c]) : results[c][i].metadata = m})
                    <= Cardinality({j \in 1..Len(metadata[c]) : metadata[c][j] = m})
            /\ Len(retval[c]) <= Len(metadata[c])

\* getLatency returned one result for a single series that lists both
\* delay event types, after one data fetch
C4_Witness ==
    \E c \in CallIds :
        /\ op[c] = "getLatency" /\ pc[c] = "returned"
        /\ Len(metadata[c]) = 1
        /\ Lists(metadata[c][1], "histogram-owdelay")
        /\ Lists(metadata[c][1], "histogram-rtt")
        /\ Len(retval[c]) = 1
        /\ Cardinality(DataFetches(c)) = 1

\* the event type getThroughput and getPacketLoss are about
Target(o) == IF o = "getThroughput" THEN "throughput" ELSE "packet-loss-rate"

\* the series of a list of results
SeriesOf(rs) == [i \in 1..Len(rs) |-> rs[i].metadata]

\* C5: getThroughput and getPacketLoss issue no data fetch and hold no result
\* for a series that does not list the target event type, and the returned
\* list holds exactly one result for every series that lists it.
C5_SkipsSeriesWithoutTarget ==
    \A c \in CallIds :
        op[c] \in {"getThroughput", "getPacketLoss"} =>
            /\ \A i \in DataFetches(c) :
                  Lists(metadata[c][log[c][i].series], Target(op[c]))
            /\ \A i \in 1..Len(results[c]) :
                  Lists(results[c][i].metadata, Target(op[c]))
            /\ pc[c] = "returned" =>
                  SeriesOf(retval[c]) =
                    SelectSeq(metadata[c], LAMBDA m : Lists(m, Target(op[c])))

\* a call returned one result where the metadata response held two series,
\* only one of which lists the target
C5_Witness ==
    \E c \in CallIds :
        /\ op[c] \in {"getThroughput", "getPacketLoss"} /\ pc[c] = "returned"
        /\ Len(metadata[c]) = 2
        /\ ~Lists(metadata[c][1], Target(op[c]))
        /\ Lists(metadata[c][2], Target(op[c]))
        /\ Len(retval[c]) = 1 /\ retval[c][1].metadata = metadata[c][2]
        /\ Cardinality(DataFetches(c)) = 1

\* a is a subsequence of b
RECURSIVE IsSubseq(_, _)
IsSubseq(a, b) ==
    IF a = <<>> THEN TRUE
    ELSE IF b = <<>> THEN FALSE
    ELSE IF a[1] = b[1] THEN IsSubseq(Tail(a), Tail(b))
    ELSE IsSubseq(a, Tail(b))

\* C6: the series of the results of a composite query form a subsequence of
\* the metadata response, in the same relative order.
C6_ResultsInMetadataOrder ==
    \A c \in CallIds :
        op[c] \in Composite =>
            /\ IsSubseq(SeriesOf(results[c]), metadata[c])
            /\ pc[c] = "returned" => IsSubseq(SeriesOf(retval[c]), metadata[c])

\* a composite query returned the results of two different series
C6_Witness ==
    \E c \in CallIds :
        /\ op[c] \in Composite /\ pc[c] = "returned"
        /\ Len(retval[c]) = 2
        /\ retval[c][1].metadata # retval[c][2].metadata
        /\ retval[c][1].metadata = metadata[c][1]

\* C7: a composite call has at most one archive request in flight, and its
\* data fetches are issued in metadata order, each after every earlier
\* request of the call was answered.
C7_OneRequestAtATime ==
    \A c \in CallIds :
        op[c] \in Composite =>
            /\ Cardinality(inflight[c]) <= 1
            /\ Len(log[c]) - Len(replies[c]) <= 1
            /\ \A i, j \in DataFetches(c) :
                  i < j => log[c][i].series < log[c][j].series
            /\ \A n \in 1..Len(replies[c]) : replies[c][n].to = n

\* the fetch of the second series is in flight, the metadata query and the
\* fetch of the first series having been answered
C7_Witness ==
    \E c \in CallIds :
        /\ op[c] \in Composite /\ pc[c] = "data"
        /\ Len(log[c]) = 3 /\ Len(replies[c]) = 2
        /\ log[c][2].series = 1 /\ log[c][3].series = 2
        /\ inflight[c] = {log[c][3]}

\* C8: a failed metadata query makes getThroughput, getLatency, getPacketLoss
\* and getAvailableEventTypes fail with that error, return nothing, and issue
\* no data fetch and no further metadata query.
C8_MetadataFailureAborts ==
    \A c \in CallIds :
        op[c] \in Composite \cup {"getAvailableEventTypes"} =>
            \A n \in 1..Len(replies[c]) :
                (~replies[c][n].ok /\ IsMetadataRequest(log[c][replies[c][n].to])) =>
                    /\ pc[c] = "failed"
                    /\ error[c].thrown
                    /\ Contains(error[c].message, replies[c][n].failure.message)
                    /\ retval[c] = <<>>
                    /\ n = Len(replies[c])
                    /\ replies[c][n].to = Len(log[c])
                    /\ DataFetches(c) = {}
                    /\ inflight[c] = {}

\* the histogram-owdelay query of a getLatency call failed: the call failed
\* having issued that one request
C8_Witness ==
    \E c \in CallIds :
        /\ op[c] = "getLatency" /\ pc[c] = "failed"
        /\ Len(log[c]) = 1 /\ IsQueryFor(log[c][1], "histogram-owdelay")
        /\ Len(replies[c]) = 1 /\ ~replies[c][1].ok
        /\ error[c].thrown

\* C9: a failed data fetch makes the composite call fail with that error: no
\* request follows it, and the results collected so far are not returned.
C9_DataFailureAborts ==
    \A c \in CallIds :
        op[c] \in Composite =>
            \A n \in 1..Len(replies[c]) :
                (~replies[c][n].ok /\ ~IsMetadataRequest(log[c][replies[c][n].to])) =>
                    /\ pc[c] = "failed"
                    /\ error[c].thrown
                    /\ Contains(error[c].message, replies[c][n].failure.message)
                    /\ retval[c] = <<>>
                    /\ n = Len(replies[c])
                    /\ replies[c][n].to = Len(log[c])
                    /\ inflight[c] = {}

\* the fetch of the second series failed after the first series' result was
\* collected: the call failed and returned nothing
C9_Witness ==
    \E c \in CallIds :
        /\ op[c] \in Composite /\ pc[c] = "failed"
        /\ Len(results[c]) = 1
        /\ Len(log[c]) = 3 /\ log[c][3].series = 2
        /\ ~replies[c][3].ok
        /\ retval[c] = <<>>

\* the answers with a non-2xx status that invocation c received
StatusFailures(c) ==
    {n \in 1..Len(replies[c]) : ~replies[c][n].ok /\ replies[c][n].failure.hasResponse}

\* C10 (as the spec states it): a non-2xx response from any archive call makes
\* the operation fail with an error whose message embeds the archive's
\* response body in serialized form.
C10_BodyAlwaysEmbedded ==
    \A c \in CallIds :
        \A n \in StatusFailures(c) :
            /\ pc[c] = "failed"
            /\ error[c].thrown
            /\ Contains(error[c].message, JSONStringify(replies[c][n].failure.data))

\* a response body that is not empty: not "", 0 or an absent body
NonEmptyBody(b) ==
    /\ b.t # "undefined"
    /\ ~(b.t = "string" /\ b.s = "")
    /\ ~(b.t = "number" /\ b.n = 0)

\* C10 (amended): a non-2xx response from any archive call makes the operation
\* fail with an error whose message is the primitive's prefix and the
\* transport message, followed by " - " and the serialized response body
\* when the body is not empty, and by nothing when it is empty.
C10_BodyEmbeddedWhenNonEmpty ==
    \A c \in CallIds :
        \A n \in StatusFailures(c) :
            LET f == replies[c][n].failure
                head == (IF IsMetadataRequest(log[c][replies[c][n].to])
                           THEN "Failed to query measurements: "
                           ELSE "Failed to get measurement data: ") \o f.message
            IN /\ pc[c] = "failed"
               /\ error[c].thrown
               /\ error[c].message =
                    IF NonEmptyBody(f.data)
                      THEN head \o " - " \o JSONStringify(f.data)
                      ELSE head

\* a data fetch of a composite query was answered with a non-2xx status and
\* an error object, and the call failed with the object in its message
C10_Witness ==
    \E c \in CallIds :
        /\ op[c] \in Composite /\ pc[c] = "failed"
        /\ \E n \in StatusFailures(c) :
              /\ ~IsMetadataRequest(log[c][replies[c][n].to])
              /\ replies[c][n].failure.data = ErrObj("bad key")
        /\ Contains(error[c].message, "{\"error\":\"bad key\"}")

\* C11: no archive request is retried: a failed request is the last request
\* of its invocation, no request is issued twice, and an invocation whose
\* metadata query returned n series issues at most 1 + n requests
\* (getThroughput, getPacketLoss) or 2 + n requests (getLatency).
C11_NoRetry ==
    \A c \in CallIds :
        /\ \A n \in 1..Len(replies[c]) :
              ~replies[c][n].ok =>
                  /\ replies[c][n].to = Len(log[c])
                  /\ n = Len(replies[c])
                  /\ inflight[c] = {}
        /\ \A i, j \in 1..Len(log[c]) : i # j => log[c][i] # log[c][j]
        /\ op[c] \in {"getThroughput", "getPacketLoss"} =>
              Len(log[c]) <= 1 + Len(metadata[c])
        /\ op[c] = "getLatency" => Len(log[c]) <= 2 + Len(metadata[c])
        /\ op[c] \in {"queryMeasurements", "getMeasurementData",
                       "getAvailableEventTypes"} => Len(log[c]) <= 1

\* the fetch of the first of two series that list the target failed: the
\* invocation failed after two requests, the second series never fetched
C11_Witness ==
    \E c \in CallIds :
        /\ op[c] \in {"getThroughput", "getPacketLoss"} /\ pc[c] = "failed"
        /\ Len(metadata[c]) = 2
        /\ Lists(metadata[c][1], Target(op[c]))
        /\ Lists(metadata[c][2], Target(op[c]))
        /\ Len(log[c]) = 2 /\ log[c][2].series = 1
        /\ ~replies[c][2].ok
        /\ ~replies[c][2].failure.hasResponse /\ replies[c][2].failure.axios

\* C12 (as the spec states it): the query parameters queryMeasurements sends
\* are exactly the filter fields that were supplied and are not empty, each
\* with its value.
C12_OnlyNonEmptySent ==
    \A c \in CallIds :
        \A i \in 1..Len(log[c]) :
            IsMetadataRequest(log[c][i]) =>
                LET filter == log[c][i].params
                    wanted == {k \in DOMAIN filter :
                                  Supplied(filter[k]) /\ filter[k] # Str("")}
                IN /\ DOMAIN SentParams(filter) = wanted
                   /\ \A k \in wanted : SentParams(filter)[k] = filter[k]

\* C13: getAvailableEventTypes returns exactly the event-type names that some
\* series of the metadata response lists, each once; an empty response gives
\* an empty collection.
C13_DistinctUnion ==
    \A c \in CallIds :
        (op[c] = "getAvailableEventTypes" /\ pc[c] = "returned") =>
            LET md == replies[c][1].list
            IN /\ Range(retval[c]) = UNION {Range(md[i].ets) : i \in 1..Len(md)}
               /\ \A i, j \in 1..Len(retval[c]) : i # j => retval[c][i] # retval[c][j]
               /\ md = <<>> => retval[c] = <<>>

\* two series share histogram-rtt, and it is returned once, next to the
\* histogram-owdelay only the second lists
C13_Witness ==
    \E c \in CallIds :
        /\ op[c] = "getAvailableEventTypes" /\ pc[c] = "returned"
        /\ Len(replies[c][1].list) = 2
        /\ replies[c][1].list[1].ets = <<"histogram-rtt">>
        /\ replies[c][1].list[2].ets = <<"histogram-rtt", "histogram-owdelay">>
        /\ retval[c] = <<"histogram-rtt", "histogram-owdelay">>

\* the summary type each composite query goes with
SummaryKind(o) ==
    IF o = "getThroughput" THEN "averages"
    ELSE IF o = "getLatency" THEN "statistics" ELSE "aggregations"

\* C14 (as the spec states it): every data fetch of a composite query asks
\* for /{its summary type}/{summaryWindow} exactly when the caller set
\* summaryWindow, and for /base otherwise.
C14_SummaryWhenWindowSet ==
    \A c \in CallIds :
        op[c] \in Composite =>
            \A i \in DataFetches(c) :
                EndsWith(log[c][i].path,
                         IF Supplied(args[c].summaryWindow)
                           THEN "/" \o SummaryKind(op[c]) \o "/" \o
                                ToString(args[c].summaryWindow.n)
                           ELSE "/base")

\* C15 (as the spec states it): getMeasurementData sends each of timeStart,
\* timeEnd and timeRange that the caller supplied as time-start, time-end,
\* time-range with its value, and leaves out each one not supplied.
C15_TimeFiltersPassedThrough ==
    \A c \in CallIds :
        op[c] = "getMeasurementData" =>
            LET sent == SentParams(log[c][1].params)
                given == [k \in {"time-start", "time-end", "time-range"} |->
                            CASE k = "time-start" -> args[c].timeStart
                              [] k = "time-end" -> args[c].timeEnd
                              [] OTHER -> args[c].timeRange]
            IN \A k \in DOMAIN given :
                  IF Supplied(given[k])
                    THEN k \in DOMAIN sent /\ sent[k] = given[k]
                    ELSE k \notin DOMAIN sent

\* C16: queryMeasurements issues exactly one request, carrying its filter,
\* and returns the archive's list unchanged; an empty list is returned as an
\* empty list, without an error.
C16_ListReturnedAsIs ==
    \A c \in CallIds :
        op[c] = "queryMeasurements" =>
            /\ Len(log[c]) = 1
            /\ IsMetadataRequest(log[c][1]) /\ log[c][1].params = args[c]
            /\ (Len(replies[c]) >= 1 /\ replies[c][1].ok) =>
                  /\ pc[c] = "returned"
                  /\ retval[c] = replies[c][1].list
                  /\ ~error[c].thrown

\* the archive answered with an empty list and queryMeasurements returned it
C16_Witness ==
    \E c \in CallIds :
        /\ op[c] = "queryMeasurements" /\ pc[c] = "returned"
        /\ Len(replies[c]) = 1 /\ replies[c][1].ok /\ replies[c][1].list = <<>>
        /\ retval[c] = <<>> /\ ~error[c].thrown

\* the position in log[c] of the i-th data fetch
FetchOf(c, i) ==
    CHOOSE j \in DataFetches(c) : Cardinality({x \in DataFetches(c) : x < j}) = i - 1

\* the archive's answer to the request at position j of log[c]
ReplyTo(c, j) ==
    replies[c][CHOOSE n \in 1..Len(replies[c]) : replies[c][n].to = j]

\* C17: the i-th result of a composite query pairs the series for which the
\* i-th data fetch was issued, as the metadata response gave it, with the
\* points the archive returned for that fetch, which is addressed by the
\* series' metadata key; the returned list is the list of these results.
C17_ResultPairsSeriesWithItsData ==
    \A c \in CallIds :
        op[c] \in Composite =>
            /\ Len(results[c]) <= Cardinality(DataFetches(c))
            /\ \A i \in 1..Len(results[c]) :
                  LET j == FetchOf(c, i)
                  IN /\ results[c][i].metadata = metadata[c][log[c][j].series]
                     /\ results[c][i].metadata
                          \in Range(replies[c][Len(log[c]) - Cardinality(DataFetches(c))].list)
                     /\ StartsWith(log[c][j].path,
                                   "/" \o results[c][i].metadata.key \o "/")
                     /\ ReplyTo(c, j).ok
                     /\ results[c][i].data = ReplyTo(c, j).list
            /\ pc[c] = "returned" => retval[c] = results[c]

\* a composite query returned two results of series with different keys,
\* the first with no point and the second with the one point of its fetch
C17_Witness ==
    \E c \in CallIds :
        /\ op[c] \in Composite /\ pc[c] = "returned"
        /\ Len(retval[c]) = 2
        /\ retval[c][1].metadata.key = "k2" /\ retval[c][2].metadata.key = "k1"
        /\ retval[c][1].data = <<>>
        /\ retval[c][2].data = <<[ts |-> 1000, val |-> 500]>>
        /\ StartsWith(log[c][Len(log[c])].path, "/k1/")

\* the last answer invocation c got is a timeout
TimedOut(c) ==
    /\ Len(replies[c]) >= 1
    /\ ~replies[c][Len(replies[c])].ok
    /\ replies[c][Len(replies[c])].failure.message = TimeoutMessage

\* C18: every invocation that has started eventually returns or fails, with
\* no request left in flight; and when a request times out, the invocation
\* has failed with the wrapped error carrying the timeout message, the
\* timed-out request is the last one it issued (no retry), and nothing is
\* returned (no partial result).
C18_SettlesAndTimeoutFails ==
    /\ \A c \in CallIds :
          (pc[c] # "idle") ~> (pc[c] \in {"returned", "failed"} /\ inflight[c] = {})
    /\ [](\A c \in CallIds :
            TimedOut(c) =>
              /\ pc[c] = "failed"
              /\ error[c].thrown /\ error[c].wrapped
              /\ EndsWith(error[c].message, TimeoutMessage)
              /\ replies[c][Len(replies[c])].to = Len(log[c])
              /\ inflight[c] = {}
              /\ retval[c] = <<>>)

\* a composite query had collected a result when its next fetch timed out:
\* it failed and returned nothing
C18_Witness ==
    \E c \in CallIds :
        /\ op[c] \in Composite /\ TimedOut(c)
        /\ Len(results[c]) >= 1
        /\ pc[c] = "failed" /\ retval[c] = <<>>

IsPrefix(s, t) == Len(s) <= Len(t) /\ SubSeq(t, 1, Len(s)) = s

\* C19: what an invocation does is a function of its method, its arguments
\* and the archive's answers to it, whatever the other invocation does in
\* between: of two invocations of the same method with the same arguments,
\* one that has had the first answers the other has had has issued the
\* first requests the other has issued, and two that have had the same
\* answers have issued the same requests and stand at the same point with
\* the same result or error.
C19_Independent ==
    \A c, d \in PairIds :
        (op[c] = op[d] /\ args[c] = args[d] /\ IsPrefix(replies[c], replies[d])) =>
            /\ IsPrefix(log[c], log[d])
            /\ replies[c] = replies[d] =>
                  /\ log[c] = log[d]
                  /\ pc[c] = pc[d]
                  /\ inflight[c] = inflight[d]
                  /\ metadata[c] = metadata[d]
                  /\ results[c] = results[d]
                  /\ retval[c] = retval[d]
                  /\ error[c] = error[d]

\* two invocations of one composite query overlap: the first has returned
\* two results while the second, with the same answers so far, has
\* collected one and awaits its second fetch
C19_Witness ==
    /\ op["c1"] \in Composite /\ op["c2"] = op["c1"] /\ args["c2"] = args["c1"]
    /\ pc["c1"] = "returned" /\ Len(retval["c1"]) = 2
    /\ pc["c2"] = "data" /\ Len(results["c2"]) = 1
    /\ IsPrefix(replies["c2"], replies["c1"])
    /\ IsPrefix(log["c2"], log["c1"])

\* the handler of invocation c threw new Error(msg) and did nothing else
Rejected(c, msg) ==
    /\ pc[c] = "failed"
    /\ error[c] = [thrown |-> TRUE, message |-> msg, wrapped |-> FALSE]
    /\ op[c] = "none"
    /\ log[c] = <<>> /\ inflight[c] = {} /\ replies[c] = <<>>
    /\ retval[c] = <<>>

\* C20: from the step that takes it on, a tool call that names none of the
\* listed tools has failed with "Unknown tool: <name>", and a resource read
\* of a URI other than the listed one has failed with "Unknown resource:
\* <uri>"; in both cases no archive request has been issued.
C20_UnknownRejected ==
    \A c \in CallIds :
        /\ (request[c].kind = "tool" /\ request[c].name \notin ToolNames) =>
              Rejected(c, "Unknown tool: " \o request[c].name)
        /\ (request[c].kind = "resource" /\ request[c].name # ResourceUri) =>
              Rejected(c, "Unknown resource: " \o request[c].name)

\* a call of get_jitter, which is no tool, has been rejected
C20_Witness ==
    \E c \in CallIds :
        /\ request[c].kind = "tool" /\ request[c].name = "get_jitter"
        /\ pc[c] = "failed" /\ error[c].message = "Unknown tool: get_jitter"
        /\ log[c] = <<>>

\* the tools whose schema has required fields
StrictTools == {"get_measurement_data", "get_throughput", "get_latency", "get_packet_loss"}

\* the required fields of tool `name` that input a lacks or gives with a
\* value of another type than the schema's
Offending(name, a) ==
    LET schema == SchemaOf(MethodOf(name))
    IN {schema[i].field : i \in {j \in 1..Len(schema) :
            /\ schema[j].required
            /\ Get(a, schema[j].field).t # schema[j].type}}

CompositeTools == {"get_throughput", "get_latency", "get_packet_loss"}

\* C22: the composite query a call of get_throughput, get_latency or
\* get_packet_loss runs gets timeRange 86400 when the input has no
\* timeRange, and the input's timeRange, unchanged, when it has one.
C22_TimeRangeDefaultOnlyWhenOmitted ==
    \A c \in CallIds :
        (/\ request[c].kind = "tool"
         /\ request[c].name \in CompositeTools
         /\ op[c] \in Composite) =>
            args[c].timeRange =
                IF Supplied(request[c].arguments.timeRange)
                  THEN request[c].arguments.timeRange
                  ELSE Num(86400)

\* invocation c reads uri: it has issued one metadata query without any
\* parameter and, once the archive has answered with a list, has returned
\* the JSON text of that list under the URI asked for
ReadsListing(c, uri) ==
    /\ Len(log[c]) = 1
    /\ IsMetadataRequest(log[c][1])
    /\ DOMAIN log[c][1].params = {}
    /\ (Len(replies[c]) >= 1 /\ replies[c][1].ok) =>
          /\ pc[c] = "returned"
          /\ ReadResult(c).contents =
                << [uri |-> uri, mimeType |-> "application/json",
                    text |-> ListingJSON(replies[c][1].list)] >>

\* C23 as stated: the one resource listed has the URI
\* archive://<host>/archive, and reading that URI returns the listing.
C23_ArchiveSchemeResource ==
    \A c \in CallIds :
        /\ request[c].kind = "list" =>
              /\ Len(retval[c]) = 1
              /\ retval[c][1].uri = "archive://" \o PerfsonarHost \o "/archive"
        /\ (/\ request[c].kind = "resource"
            /\ request[c].name = "archive://" \o PerfsonarHost \o "/archive") =>
              ReadsListing(c, request[c].name)

\* C23, amended: exactly one resource is listed, its URI is
\* perfsonar://<host>/archive, and reading that URI issues one metadata
\* query without filter keys and returns the archive's list as JSON text.
C23_PerfsonarSchemeResource ==
    \A c \in CallIds :
        /\ request[c].kind = "list" =>
              /\ pc[c] = "returned" /\ log[c] = <<>>
              /\ Len(retval[c]) = 1
              /\ retval[c][1].uri = "perfsonar://" \o PerfsonarHost \o "/archive"
        /\ (/\ request[c].kind = "resource"
            /\ request[c].name = "perfsonar://" \o PerfsonarHost \o "/archive") =>
              ReadsListing(c, request[c].name)

\* the listed URI was read and a listing of two series came back as text
C23_Witness ==
    \E c \in CallIds :
        /\ request[c].kind = "resource"
        /\ request[c].name = ListedResources[1].uri
        /\ pc[c] = "returned" /\ Len(log[c]) = 1
        /\ Len(replies[c][1].list) = 2 /\ replies[c][1].list[1] # replies[c][1].list[2]
        /\ ReadResult(c).contents[1].text = ListingJSON(replies[c][1].list)
        /\ Contains(ReadResult(c).contents[1].text, "\"metadata-key\": \"k2\"")

\* C24: while PERFSONAR_HOST is unset or empty the process is either at its
\* start or has exited with code 1 after writing the error; no client was
\* created, no handler registered, the transport was never connected, and
\* no request has been taken on.
C24_NoServingWithoutHost ==
    ~Truthy(server.env) =>
        /\ server.phase \in {"start", "exited"}
        /\ server.phase = "exited" =>
              /\ server.exit = Num(1)
              /\ server.stderr = <<"Error: PERFSONAR_HOST environment variable is required">>
        /\ ~server.client /\ ~server.handlers /\ ~server.connected
        /\ \A c \in CallIds :
              pc[c] = "idle" /\ request[c] = NoRequest /\ log[c] = <<>>

\* started with an empty PERFSONAR_HOST, the process has exited with code 1
C24_Witness ==
    /\ server.env = Str("")
    /\ server.phase = "exited" /\ server.exit = Num(1)
    /\ ~server.client /\ ~server.connected

\* the error the primitive that issued request r throws for failure f
ClientError(r, f) ==
    WrapError(IF IsMetadataRequest(r) THEN QueryPrefix ELSE DataPrefix, f)

\* C25: when a request of a tool invocation has failed, the invocation has
\* failed with exactly the error the client threw for it and the handler
\* has returned no content; an error that starts with "Invalid arguments: "
\* leaves the handler only for an input with validation issues.
C25_ClientErrorUnchanged ==
    \A c \in CallIds :
        request[c].kind = "tool" =>
            /\ (Len(replies[c]) >= 1 /\ ~replies[c][Len(replies[c])].ok) =>
                  LET last == replies[c][Len(replies[c])]
                  IN /\ pc[c] = "failed"
                     /\ error[c] = ClientError(log[c][last.to], last.failure)
                     /\ ToolResult(c) = NoResult
            /\ (error[c].thrown /\ StartsWith(error[c].message, "Invalid arguments: ")) =>
                  /\ log[c] = <<>>
                  /\ MethodOf(request[c].name) # "none"
                  /\ Issues(SchemaOf(MethodOf(request[c].name)), request[c].arguments) # <<>>

\* get_throughput had one result when its second fetch was answered with
\* status 500 and an error body: the client's error came out as it was
C25_Witness ==
    \E c \in CallIds :
        /\ request[c].kind = "tool" /\ request[c].name = "get_throughput"
        /\ Len(results[c]) = 1 /\ pc[c] = "failed"
        /\ error[c].wrapped
        /\ error[c].message =
              DataPrefix \o "Request failed with status code 500 - {\"error\":\"bad key\"}"
        /\ ToolResult(c) = NoResult

\* C26: a getThroughput or getPacketLoss call issues its one metadata query
\* first, with exactly the caller's source and destination and the target
\* event type as parameters; it issues a data fetch only once that query has
\* been answered with a list; and it has returned only when every data
\* fetch it issued has been answered.
C26_OneQueryThenFetches ==
    \A c \in CallIds :
        op[c] \in {"getThroughput", "getPacketLoss"} =>
            /\ IsMetadataRequest(log[c][1])
            /\ log[c][1].params =
                  ("source" :> Str(args[c].source)) @@
                  ("destination" :> Str(args[c].destination)) @@
                  ("event-type" :> Str(Target(op[c])))
            /\ \A i \in 2..Len(log[c]) : ~IsMetadataRequest(log[c][i])
            /\ Len(log[c]) >= 2 =>
                  /\ replies[c][1].to = 1 /\ replies[c][1].ok
                  /\ \A i \in 2..Len(log[c]) : Len(replies[c]) >= i - 1
            /\ pc[c] = "returned" =>
                  /\ inflight[c] = {}
                  /\ Len(replies[c]) = Len(log[c])
                  /\ \A i \in DataFetches(c) : ReplyTo(c, i).ok

\* getPacketLoss has returned two results after one metadata query and two
\* data fetches, all three answered
C26_Witness ==
    \E c \in CallIds :
        /\ op[c] = "getPacketLoss" /\ pc[c] = "returned"
        /\ Len(retval[c]) = 2 /\ Len(log[c]) = 3 /\ Len(replies[c]) = 3
        /\ IsQueryFor(log[c][1], "packet-loss-rate")
        /\ DataFetches(c) = {2, 3}

\* the series lists one of the two delay event types
HasDelay(m) == Lists(m, "histogram-owdelay") \/ Lists(m, "histogram-rtt")

\* C27: getLatency issues no data fetch and holds no result for a series
\* listing neither histogram-owdelay nor histogram-rtt, and goes on with the
\* next series: the returned list holds one result for every series that
\* lists one of them; a non-empty answer to the histogram-owdelay query
\* whose series all list neither makes the call return the empty list, with
\* no error, no second metadata query and no data fetch.
C27_SeriesWithoutDelayTypeSkipped ==
    \A c \in CallIds :
        op[c] = "getLatency" =>
            /\ \A i \in DataFetches(c) : HasDelay(metadata[c][log[c][i].series])
            /\ \A i \in 1..Len(results[c]) : HasDelay(results[c][i].metadata)
            /\ pc[c] = "returned" =>
                  SeriesOf(retval[c]) = SelectSeq(metadata[c], HasDelay)
            /\ ( /\ Len(replies[c]) >= 1 /\ replies[c][1].ok
                 /\ replies[c][1].list # <<>>
                 /\ \A m \in Range(replies[c][1].list) : ~HasDelay(m) ) =>
                  /\ pc[c] = "returned" /\ retval[c] = <<>>
                  /\ ~error[c].thrown
                  /\ Len(log[c]) = 1

\* getLatency returned one result, of the second series, where the first
\* series of the metadata response lists neither delay event type
C27_Witness ==
    \E c \in CallIds :
        /\ op[c] = "getLatency" /\ pc[c] = "returned"
        /\ Len(metadata[c]) = 2
        /\ ~HasDelay(metadata[c][1]) /\ HasDelay(metadata[c][2])
        /\ Len(retval[c]) = 1 /\ retval[c][1].metadata = metadata[c][2]
        /\ DataFetches(c) = {2} /\ log[c][2].series = 2

\* the positions in log[c] of the metadata queries of invocation c
MetadataQueries(c) == {i \in 1..Len(log[c]) : IsMetadataRequest(log[c][i])}

\* the first n answers invocation c got are empty lists
EmptyAnswers(c, n) ==
    /\ Len(replies[c]) >= n
    /\ \A i \in 1..n : replies[c][i].ok /\ replies[c][i].list = <<>>

\* C28: a getLatency call issues at most two metadata queries; an empty
\* answer to the histogram-owdelay query is followed by the histogram-rtt
\* query, and when that is answered with an empty list too the call has
\* returned the empty list, with no error, after exactly these two metadata
\* queries and no data fetch.
C28_BothEmptyReturnsEmpty ==
    \A c \in CallIds :
        op[c] = "getLatency" =>
            /\ Cardinality(MetadataQueries(c)) <= 2
            /\ EmptyAnswers(c, 1) =>
                  /\ Len(log[c]) >= 2
                  /\ IsQueryFor(log[c][1], "histogram-owdelay")
                  /\ IsQueryFor(log[c][2], "histogram-rtt")
            /\ EmptyAnswers(c, 2) =>
                  /\ pc[c] = "returned" /\ retval[c] = <<>>
                  /\ ~error[c].thrown
                  /\ MetadataQueries(c) = {1, 2}
                  /\ DataFetches(c) = {}
                  /\ Len(log[c]) = 2 /\ inflight[c] = {}

\* getLatency returned the empty list after both of its metadata queries
\* were answered with no series
C28_Witness ==
    \E c \in CallIds :
        /\ op[c] = "getLatency" /\ pc[c] = "returned"
        /\ EmptyAnswers(c, 2) /\ Len(replies[c]) = 2
        /\ replies[c][1].to = 1 /\ replies[c][2].to = 2
        /\ retval[c] = <<>> /\ Len(log[c]) = 2

\* C29: every metadata query of getThroughput, getLatency and getPacketLoss
\* carries exactly the parameters source, destination and event-type, with
\* the caller's hosts and one of the method's event types, whatever
\* timeRange and summaryWindow the caller gave (so never time-range,
\* time-start, time-end or limit); the caller's timeRange, when it counts,
\* goes out with every data fetch.
C29_OptionsOnlyInDataFetches ==
    \A c \in CallIds :
        op[c] \in Composite =>
            /\ \A i \in MetadataQueries(c) :
                  /\ DOMAIN log[c][i].params = {"source", "destination", "event-type"}
                  /\ DOMAIN log[c][i].params \cap
                        {"time-range", "time-start", "time-end", "limit"} = {}
                  /\ log[c][i].params["source"] = Str(args[c].source)
                  /\ log[c][i].params["destination"] = Str(args[c].destination)
                  /\ \E n \in 1..Len(EventTypesOf(op[c])) :
                        log[c][i].params["event-type"] = Str(EventTypesOf(op[c])[n])
            /\ \A i \in DataFetches(c) :
                  Truthy(args[c].timeRange) =>
                      /\ "time-range" \in DOMAIN log[c][i].params
                      /\ log[c][i].params["time-range"] = args[c].timeRange

\* getLatency, called with a timeRange and a summaryWindow, issued both of
\* its metadata queries and then a data fetch that carries the time range
\* and asks for the summary
C29_Witness ==
    \E c \in CallIds :
        /\ op[c] = "getLatency"
        /\ args[c].timeRange = Num(86400) /\ args[c].summaryWindow = Num(3600)
        /\ MetadataQueries(c) = {1, 2} /\ DataFetches(c) = {3}
        /\ log[c][3].params = ("time-range" :> Num(86400))
        /\ Contains(log[c][3].path, "/statistics/3600")

\* C30: every data fetch issued for a call of get_throughput, get_latency
\* or get_packet_loss carries a time-range parameter that is a number other
\* than 0: 86400 when the input's timeRange is absent or 0, the input's
\* timeRange otherwise.
C30_FetchesCarryTimeRange ==
    \A c \in CallIds :
        (request[c].kind = "tool" /\ request[c].name \in CompositeTools) =>
            \A i \in DataFetches(c) :
                LET given == request[c].arguments.timeRange
                IN /\ "time-range" \in DOMAIN log[c][i].params
                   /\ log[c][i].params["time-range"].t = "number"
                   /\ log[c][i].params["time-range"].n # 0
                   /\ log[c][i].params["time-range"] =
                         IF given \in {Undefined, Num(0)} THEN Num(86400) ELSE given

\* get_latency was called with timeRange 0 and its data fetch went out with
\* time-range 86400
C30_Witness ==
    \E c \in CallIds :
        /\ request[c].kind = "tool" /\ request[c].name = "get_latency"
        /\ request[c].arguments.timeRange = Num(0)
        /\ DataFetches(c) # {}
        /\ \A i \in DataFetches(c) : log[c][i].params["time-range"] = Num(86400)

====
